---- MODULE Spec2Model ----
(***************************************************************************)
(* A model of i_edit_json: the path splitter, the value coercer, the tree  *)
(* reader (get_nested_value) and the tree writer (set_nested_value), with  *)
(* the file operations set_field and extract_field on top of them.         *)
(*                                                                         *)
(* A Rust &str is modelled as a sequence of one-character strings, so that *)
(* the character scans of the source (chars(), find, contains, slicing,    *)
(* parse) are computed the way the source computes them.                   *)
(***************************************************************************)
EXTENDS Integers, Sequences, FiniteSets, TLC

(***************************************************************************)
(* F(e) with e evaluated once: a "let" whose value TLC computes a single   *)
(* time however often F's body uses it.                                    *)
(***************************************************************************)
Bind(e, F(_)) == CHOOSE y \in {F(x) : x \in {e}} : TRUE

(***************************************************************************)
(* Text helpers (std::str).                                                *)
(***************************************************************************)

\* str::contains(char)
Contains(s, c) == \E i \in 1..Len(s) : s[i] = c

\* str::find(char): the 0-based offset of the first occurrence, -1 for None
Find(s, c) ==
  IF Contains(s, c)
  THEN (CHOOSE i \in 1..Len(s) : s[i] = c /\ \A j \in 1..(i - 1) : s[j] # c) - 1
  ELSE -1

\* str::ends_with(char)
EndsWith(s, c) == Len(s) > 0 /\ s[Len(s)] = c

\* str::starts_with(char)
StartsWith(s, c) == Len(s) > 0 /\ s[1] = c

\* &s[from..to] with 0-based half-open offsets; the caller checks from <= to
Slice(s, from, to) == SubSeq(s, from + 1, to)

DigitChars == {"0", "1", "2", "3", "4", "5", "6", "7", "8", "9"}

DigitVal(c) ==
  CASE c = "0" -> 0 [] c = "1" -> 1 [] c = "2" -> 2 [] c = "3" -> 3
    [] c = "4" -> 4 [] c = "5" -> 5 [] c = "6" -> 6 [] c = "7" -> 7
    [] c = "8" -> 8 [] c = "9" -> 9

AllDigits(s) == \A i \in 1..Len(s) : s[i] \in DigitChars

\* a digit string without its leading zeros ("0" for zero)
RECURSIVE StripZeros(_)
StripZeros(ds) ==
  IF Len(ds) > 1 /\ ds[1] = "0" THEN StripZeros(Tail(ds))
  ELSE IF Len(ds) = 0 THEN <<"0">> ELSE ds

\* a <= b for two digit strings without leading zeros
RECURSIVE LexLeq(_, _)
LexLeq(a, b) ==
  IF Len(a) = 0 THEN TRUE
  ELSE IF DigitVal(a[1]) < DigitVal(b[1]) THEN TRUE
  ELSE IF DigitVal(a[1]) > DigitVal(b[1]) THEN FALSE
  ELSE LexLeq(Tail(a), Tail(b))

DigitsLeq(a, b) ==
  \/ Len(a) < Len(b)
  \/ Len(a) = Len(b) /\ LexLeq(a, b)

\* the number a string of digits denotes (used for array indices only)
RECURSIVE DigitsToNatUpTo(_, _)
DigitsToNatUpTo(ds, n) ==
  IF n = 0 THEN 0 ELSE 10 * DigitsToNatUpTo(ds, n - 1) + DigitVal(ds[n])

DigitsToNat(ds) == DigitsToNatUpTo(ds, Len(ds))

\* usize::MAX, i64::MAX, -i64::MIN, u64::MAX and 2^53 as digit strings
UsizeMaxDigits ==
  <<"1","8","4","4","6","7","4","4","0","7","3","7","0","9","5","5","1","6","1","5">>
I64MaxDigits ==
  <<"9","2","2","3","3","7","2","0","3","6","8","5","4","7","7","5","8","0","7">>
I64MinDigits ==
  <<"9","2","2","3","3","7","2","0","3","6","8","5","4","7","7","5","8","0","8">>
Two53Digits ==
  <<"9","0","0","7","1","9","9","2","5","4","7","4","0","9","9","2">>

(***************************************************************************)
(* str::parse::<usize>(): an optional '+', then one or more ASCII digits,  *)
(* no overflow.  [ok, n]                                                   *)
(***************************************************************************)
ParseUsize(s) ==
  LET body == IF StartsWith(s, "+") THEN Tail(s) ELSE s
  IN IF Len(body) > 0 /\ AllDigits(body) /\ DigitsLeq(StripZeros(body), UsizeMaxDigits)
     THEN [ok |-> TRUE, n |-> DigitsToNat(StripZeros(body))]
     ELSE [ok |-> FALSE, n |-> 0]

(***************************************************************************)
(* split_field_path: the scan over the characters of the path.             *)
(***************************************************************************)
\* a dot that ends a chunk where it should split at every dot
SeparatorAnywhere(c, in_array) == c = "."

\* the match arm  '.' if !in_array
IsSeparator(c, in_array) == c = "." /\ ~in_array

RECURSIVE SplitScan(_, _, _, _, _)
SplitScan(s, i, parts, current, in_array) ==
  IF i > Len(s)
  THEN IF current # << >>
       THEN [ok |-> TRUE, parts |-> Append(parts, current)]
       ELSE [ok |-> FALSE, parts |-> << >>]
  ELSE LET c == s[i]
       IN IF IsSeparator(c, in_array)
          THEN IF current = << >>
               THEN [ok |-> FALSE, parts |-> << >>]
               ELSE SplitScan(s, i + 1, Append(parts, current), << >>, in_array)
          ELSE IF c = "["
          THEN SplitScan(s, i + 1, parts, Append(current, c), TRUE)
          ELSE IF c = "]"
          THEN SplitScan(s, i + 1, parts, Append(current, c), FALSE)
          ELSE SplitScan(s, i + 1, parts, Append(current, c), in_array)

\* [ok, parts]; ok = FALSE is Err(InvalidFieldPath)
split_field_path(field_path) == SplitScan(field_path, 1, << >>, << >>, FALSE)

\* str::split('.'): the pieces between the dots (one piece for a dot-free string)
RECURSIVE StrSplit(_, _, _)
StrSplit(s, i, current) ==
  IF i > Len(s) THEN <<current>>
  ELSE IF s[i] = "." THEN <<current>> \o StrSplit(s, i + 1, << >>)
  ELSE StrSplit(s, i + 1, Append(current, s[i]))

(***************************************************************************)
(* serde_json::Value.  An Object is a function from keys (texts) to        *)
(* values, an Array a sequence.  A Number is an integer (PosInt / NegInt:  *)
(* sign and decimal digits without leading zeros) or a float; a finite     *)
(* float is held as the decimal it denotes (integer digits ip, fraction    *)
(* digits fp without trailing zeros), which is exact for the literals of   *)
(* at most 15 significant digits used here.                                *)
(***************************************************************************)
Null == [t |-> "null"]
BoolV(b) == [t |-> "bool", b |-> b]
IntV(neg, ds) == [t |-> "int", neg |-> neg, ds |-> ds]
FloatV(neg, ip, fp) == [t |-> "float", neg |-> neg, ip |-> ip, fp |-> fp]
StrV(s) == [t |-> "str", s |-> s]
ArrV(a) == [t |-> "arr", a |-> a]
ObjV(m) == [t |-> "obj", m |-> m]

EmptyMap == [k \in {} |-> Null]

\* Map::insert / the slot of Map::entry(k).or_insert(v) once filled
MapPut(m, k, v) == [x \in (DOMAIN m) \cup {k} |-> IF x = k THEN v ELSE m[x]]

(***************************************************************************)
(* Results.  kind "ok" or the name of the JsonExtractError variant         *)
(* (src/src/error.rs); "panic" is a Rust panic (the call aborts).          *)
(***************************************************************************)
Ok(v) == [kind |-> "ok", v |-> v]
Err(kind, msg) == [kind |-> kind, msg |-> msg]
IndexErr(name, index, length) ==
  [kind |-> "ArrayIndexOutOfBounds", path |-> name, index |-> index, length |-> length]
Panic == [kind |-> "panic"]

(***************************************************************************)
(* get_nested_value: the loop over path.split('.').                        *)
(***************************************************************************)
\* the element before the one asked for
ElemBefore(array, index) == array[IF index = 0 THEN 1 ELSE index]

\* &array[index]
ElemAt(array, index) == array[index + 1]

RECURSIVE GetLoop(_, _, _)
GetLoop(current, parts, i) ==
  IF i > Len(parts) THEN Ok(current)
  ELSE
    LET part == parts[i] IN
    IF Contains(part, "[") /\ EndsWith(part, "]")
    THEN
      LET bracket_start == Find(part, "[")
          array_name == Slice(part, 0, bracket_start)
      IN
      IF bracket_start + 1 > Len(part) - 1 THEN Panic
      ELSE
        LET index_str == Slice(part, bracket_start + 1, Len(part) - 1)
            index == ParseUsize(index_str)
        IN
        IF ~index.ok THEN Err("InvalidArrayIndex", index_str)
        ELSE IF ~(current.t = "obj" /\ array_name \in DOMAIN current.m)
        THEN Err("FieldNotFound", array_name)
        ELSE IF current.m[array_name].t # "arr"
        THEN Err("NotAnArray", array_name)
        ELSE
          Bind(current.m[array_name].a, LAMBDA array :
            IF index.n >= Len(array)
            THEN IndexErr(array_name, index.n, Len(array))
            ELSE GetLoop(ElemAt(array, index.n), parts, i + 1))
    ELSE
      IF current.t = "obj" /\ part \in DOMAIN current.m
      THEN GetLoop(current.m[part], parts, i + 1)
      ELSE Err("FieldNotFound", part)

get_nested_value(value, path) ==
  Bind(StrSplit(path, 1, << >>), LAMBDA parts : GetLoop(value, parts, 1))

(***************************************************************************)
(* Numbers.  An f64 is a finite decimal, an infinity or NaN.               *)
(***************************************************************************)
Finite(neg, ip, fp) == [c |-> "finite", neg |-> neg, ip |-> ip, fp |-> fp]
Inf(neg) == [c |-> "inf", neg |-> neg]
NaN == [c |-> "nan"]

RECURSIVE CountDigits(_, _)
CountDigits(s, i) ==
  IF i <= Len(s) /\ s[i] \in DigitChars THEN 1 + CountDigits(s, i + 1) ELSE 0

\* the length of fs without its trailing zeros
RECURSIVE TrimmedLen(_, _)
TrimmedLen(fs, n) == IF n > 0 /\ fs[n] = "0" THEN TrimmedLen(fs, n - 1) ELSE n

StripTrailingZeros(fs) == SubSeq(fs, 1, TrimmedLen(fs, Len(fs)))

Zeros(n) == [i \in 1..n |-> "0"]

Max0(n) == IF n > 0 THEN n ELSE 0

\* the scan of a decimal literal that starts at position i of s:
\* digits [ '.' digits ] [ ('e' | 'E') [ '+' | '-' ] digits ]
DecScan(s, i) ==
  LET n1 == CountDigits(s, i)
      hasDot == i + n1 <= Len(s) /\ s[i + n1] = "."
      n2 == IF hasDot THEN CountDigits(s, i + n1 + 1) ELSE 0
      p == i + n1 + (IF hasDot THEN 1 + n2 ELSE 0)
      hasExp == p <= Len(s) /\ s[p] \in {"e", "E"}
      hasSign == hasExp /\ p + 1 <= Len(s) /\ s[p + 1] \in {"+", "-"}
      q == p + 1 + (IF hasSign THEN 1 ELSE 0)
      n3 == IF hasExp THEN CountDigits(s, q) ELSE 0
  IN [ip |-> SubSeq(s, i, i + n1 - 1),
      hasDot |-> hasDot,
      fp |-> SubSeq(s, i + n1 + 1, i + n1 + n2),
      hasExp |-> hasExp,
      eneg |-> hasSign /\ s[p + 1] = "-",
      ed |-> SubSeq(s, q, q + n3 - 1),
      end |-> IF hasExp THEN q + n3 ELSE p]

\* the exponent's magnitude; more than four digits saturate (far beyond f64's range)
ExpMag(ed) ==
  IF Len(ed) = 0 THEN 0
  ELSE IF Len(StripZeros(ed)) > 4 THEN 9999 ELSE DigitsToNat(StripZeros(ed))

LeadingZeros(fs) ==
  IF \A i \in 1..Len(fs) : fs[i] = "0" THEN Len(fs)
  ELSE (CHOOSE i \in 1..Len(fs) : fs[i] # "0" /\ \A j \in 1..(i - 1) : fs[j] = "0") - 1

\* the f64 of sign, integer digits, fraction digits and decimal exponent:
\* the decimal point is moved, then the value is normalised; more than 309
\* integer digits overflow to an infinity, 324 leading fraction zeros underflow to 0
MkF64(neg, ip, fp, eneg, emag) ==
  LET fpz == fp \o Zeros(Max0(emag - Len(fp)))
      ipz == Zeros(Max0(emag - Len(ip))) \o ip
      ip1 == IF eneg THEN SubSeq(ipz, 1, Len(ipz) - emag)
             ELSE ip \o SubSeq(fpz, 1, emag)
      fp1 == IF eneg THEN SubSeq(ipz, Len(ipz) - emag + 1, Len(ipz)) \o fp
             ELSE SubSeq(fpz, emag + 1, Len(fpz))
      ipn == StripZeros(ip1)
      fpn == StripTrailingZeros(fp1)
  IN IF StripZeros(ip) = <<"0">> /\ StripTrailingZeros(fp) = << >>
     THEN Finite(neg, <<"0">>, << >>)
     ELSE IF Len(ipn) > 309 THEN Inf(neg)
     ELSE IF ipn = <<"0">> /\ LeadingZeros(fpn) >= 324 THEN Finite(neg, <<"0">>, << >>)
     ELSE Finite(neg, ipn, fpn)

Lower(c) ==
  CASE c = "A" -> "a" [] c = "B" -> "b" [] c = "C" -> "c" [] c = "D" -> "d"
    [] c = "E" -> "e" [] c = "F" -> "f" [] c = "G" -> "g" [] c = "H" -> "h"
    [] c = "I" -> "i" [] c = "J" -> "j" [] c = "K" -> "k" [] c = "L" -> "l"
    [] c = "M" -> "m" [] c = "N" -> "n" [] c = "O" -> "o" [] c = "P" -> "p"
    [] c = "Q" -> "q" [] c = "R" -> "r" [] c = "S" -> "s" [] c = "T" -> "t"
    [] c = "U" -> "u" [] c = "V" -> "v" [] c = "W" -> "w" [] c = "X" -> "x"
    [] c = "Y" -> "y" [] c = "Z" -> "z"
    [] OTHER -> c

\* str::to_lowercase / the folding of eq_ignore_ascii_case
ToLower(s) == [i \in 1..Len(s) |-> Lower(s[i])]

EqIgnoreCase(s, lit) == ToLower(s) = lit

HasSign(s) == Len(s) > 0 /\ s[1] \in {"+", "-"}

(***************************************************************************)
(* str::parse::<i64>(): an optional sign, one or more digits, in range.    *)
(* [ok, v] with v the serde_json Number of the i64 (From<i64>).            *)
(***************************************************************************)
ParseI64(s) ==
  LET neg == StartsWith(s, "-")
      body == IF HasSign(s) THEN Tail(s) ELSE s
      mag == StripZeros(body)
  IN IF /\ Len(body) > 0
        /\ AllDigits(body)
        /\ DigitsLeq(mag, IF neg THEN I64MinDigits ELSE I64MaxDigits)
     THEN [ok |-> TRUE, v |-> IntV(neg /\ mag # <<"0">>, mag)]
     ELSE [ok |-> FALSE, v |-> Null]

(***************************************************************************)
(* str::parse::<f64>(): an optional sign, then inf / infinity / nan in any *)
(* case, or a decimal with at least one digit and an optional exponent.    *)
(* [ok, f]                                                                 *)
(***************************************************************************)
ParseF64(s) ==
  LET neg == StartsWith(s, "-")
      body == IF HasSign(s) THEN Tail(s) ELSE s
      d == DecScan(body, 1)
  IN IF EqIgnoreCase(body, <<"i","n","f">>)
        \/ EqIgnoreCase(body, <<"i","n","f","i","n","i","t","y">>)
     THEN [ok |-> TRUE, f |-> Inf(neg)]
     ELSE IF EqIgnoreCase(body, <<"n","a","n">>)
     THEN [ok |-> TRUE, f |-> NaN]
     ELSE IF /\ Len(d.ip) + Len(d.fp) > 0
             /\ (d.hasExp => Len(d.ed) > 0)
             /\ d.end = Len(body) + 1
     THEN [ok |-> TRUE, f |-> MkF64(neg, d.ip, d.fp, d.eneg, ExpMag(d.ed))]
     ELSE [ok |-> FALSE, f |-> NaN]

\* serde_json::Number::from_f64: None for a non-finite float
NumberFromF64(f) ==
  IF f.c = "finite" THEN [some |-> TRUE, v |-> FloatV(f.neg, f.ip, f.fp)]
  ELSE [some |-> FALSE, v |-> Null]

\* impl From<f64> for Value: Number::from_f64(f).map_or(Value::Null, Value::Number)
ValueFromF64(f) == NumberFromF64(f).v

(***************************************************************************)
(* serde_json::from_str::<Value>: JSON text to a value.  [ok, v, next]     *)
(* with next the position after what was read.  Of the string escapes only *)
(* \" \\ and \/ are modelled (the texts used hold no other backslash).     *)
(***************************************************************************)
IsWs(c) == c \in {" ", "\n", "\t", "\r"}

RECURSIVE SkipWs(_, _)
SkipWs(s, i) == IF i <= Len(s) /\ IsWs(s[i]) THEN SkipWs(s, i + 1) ELSE i

Matches(s, i, lit) ==
  i + Len(lit) - 1 <= Len(s) /\ SubSeq(s, i, i + Len(lit) - 1) = lit

Fail == [ok |-> FALSE, v |-> Null, next |-> 0]
Got(v, next) == [ok |-> TRUE, v |-> v, next |-> next]

\* the characters of a string literal whose opening quote precedes position i
RECURSIVE ScanString(_, _, _)
ScanString(s, i, acc) ==
  IF i > Len(s) THEN Fail
  ELSE IF s[i] = "\"" THEN Got(StrV(acc), i + 1)
  ELSE IF s[i] = "\\"
  THEN IF i + 1 <= Len(s) /\ s[i + 1] \in {"\"", "\\", "/"}
       THEN ScanString(s, i + 2, Append(acc, s[i + 1]))
       ELSE Fail
  ELSE IF s[i] \in {"\n", "\t", "\r"} THEN Fail
  ELSE ScanString(s, i + 1, Append(acc, s[i]))

\* a JSON number at position i: -? (0 | [1-9][0-9]*) (. [0-9]+)? ([eE] [+-]? [0-9]+)?
\* an integer literal is a PosInt (u64) or NegInt (i64) when it fits, "-0" and any
\* literal with a fraction or an exponent is a float; an infinite float is an error
JsonNumber(s, i) ==
  Bind(DecScan(s, IF s[i] = "-" THEN i + 1 ELSE i), LAMBDA d :
  LET neg == s[i] = "-"
      asFloat == Bind(MkF64(neg, d.ip, d.fp, d.eneg, ExpMag(d.ed)), LAMBDA f :
                   IF f.c = "finite" THEN Got(FloatV(f.neg, f.ip, f.fp), d.end)
                   ELSE Fail)
  IN IF Len(d.ip) = 0 THEN Fail
     ELSE IF Len(d.ip) > 1 /\ d.ip[1] = "0" THEN Fail
     ELSE IF d.hasDot /\ Len(d.fp) = 0 THEN Fail
     ELSE IF d.hasExp /\ Len(d.ed) = 0 THEN Fail
     ELSE IF d.hasDot \/ d.hasExp THEN asFloat
     ELSE IF ~neg
     THEN IF DigitsLeq(d.ip, UsizeMaxDigits) THEN Got(IntV(FALSE, d.ip), d.end)
          ELSE asFloat
     ELSE IF d.ip = <<"0">> THEN asFloat
     ELSE IF DigitsLeq(d.ip, I64MinDigits) THEN Got(IntV(TRUE, d.ip), d.end)
     ELSE asFloat)

RECURSIVE ParseValue(_, _)
RECURSIVE ParseElems(_, _, _)
RECURSIVE ParseMembers(_, _, _)

\* the value that starts at position i (white space skipped)
ValueAt(s, i) ==
  IF i > Len(s) THEN Fail
  ELSE IF Matches(s, i, <<"n","u","l","l">>) THEN Got(Null, i + 4)
  ELSE IF Matches(s, i, <<"t","r","u","e">>) THEN Got(BoolV(TRUE), i + 4)
  ELSE IF Matches(s, i, <<"f","a","l","s","e">>) THEN Got(BoolV(FALSE), i + 5)
  ELSE IF s[i] = "\"" THEN ScanString(s, i + 1, << >>)
  ELSE IF s[i] = "["
  THEN Bind(SkipWs(s, i + 1), LAMBDA j :
         IF j <= Len(s) /\ s[j] = "]" THEN Got(ArrV(<< >>), j + 1)
         ELSE ParseElems(s, j, << >>))
  ELSE IF s[i] = "{"
  THEN Bind(SkipWs(s, i + 1), LAMBDA j :
         IF j <= Len(s) /\ s[j] = "}" THEN Got(ObjV(EmptyMap), j + 1)
         ELSE ParseMembers(s, j, EmptyMap))
  ELSE IF s[i] = "-" \/ s[i] \in DigitChars THEN JsonNumber(s, i)
  ELSE Fail

ParseValue(s, i0) == Bind(SkipWs(s, i0), LAMBDA i : ValueAt(s, i))

\* after the value r of an array: ',' and the next element, or ']'
AfterElem(s, acc, r, j) ==
  IF j > Len(s) THEN Fail
  ELSE IF s[j] = "," THEN ParseElems(s, j + 1, Append(acc, r.v))
  ELSE IF s[j] = "]" THEN Got(ArrV(Append(acc, r.v)), j + 1)
  ELSE Fail

\* the elements of an array from the element that starts at i
ParseElems(s, i, acc) ==
  Bind(ParseValue(s, i), LAMBDA r :
    IF ~r.ok THEN Fail
    ELSE Bind(SkipWs(s, r.next), LAMBDA j : AfterElem(s, acc, r, j)))

\* after the member k: r of an object: ',' and the next member, or '}'
AfterMember(s, acc, k, r, j) ==
  IF j > Len(s) THEN Fail
  ELSE IF s[j] = "," THEN ParseMembers(s, j + 1, MapPut(acc, k.v.s, r.v))
  ELSE IF s[j] = "}" THEN Got(ObjV(MapPut(acc, k.v.s, r.v)), j + 1)
  ELSE Fail

\* the value of the member whose key k has been read: ':' and a value
MemberValue(s, acc, k) ==
  IF ~k.ok THEN Fail
  ELSE Bind(SkipWs(s, k.next), LAMBDA c :
    IF ~(c <= Len(s) /\ s[c] = ":") THEN Fail
    ELSE Bind(ParseValue(s, c + 1), LAMBDA r :
      IF ~r.ok THEN Fail
      ELSE Bind(SkipWs(s, r.next), LAMBDA j : AfterMember(s, acc, k, r, j))))

\* the members of an object from the key that starts at i (a repeated key: last wins)
ParseMembers(s, i, acc) ==
  Bind(SkipWs(s, i), LAMBDA k0 :
    IF k0 <= Len(s) /\ s[k0] = "\""
    THEN Bind(ScanString(s, k0 + 1, << >>), LAMBDA k : MemberValue(s, acc, k))
    ELSE Fail)

\* [ok, v]: one value, then only white space
from_str(s) ==
  Bind(ParseValue(s, 1), LAMBDA r :
    IF r.ok /\ SkipWs(s, r.next) = Len(s) + 1
    THEN [ok |-> TRUE, v |-> r.v]
    ELSE [ok |-> FALSE, v |-> Null])

(***************************************************************************)
(* serde_json::to_string / to_string_pretty: a value to JSON text.  The    *)
(* order of an object's keys in the text is the map's (sorted or insertion *)
(* order, by build); the model fixes one order, which no structural        *)
(* comparison of values observes.                                          *)
(***************************************************************************)
RECURSIVE EscapeStr(_)
EscapeStr(s) ==
  IF Len(s) = 0 THEN << >>
  ELSE (IF s[1] \in {"\"", "\\"} THEN <<"\\", s[1]>> ELSE <<s[1]>>) \o EscapeStr(Tail(s))

Quoted(s) == <<"\"">> \o EscapeStr(s) \o <<"\"">>

\* a number to decimal digits
RECURSIVE NatText(_)
NatText(n) ==
  IF n < 10 THEN <<CHOOSE c \in DigitChars : DigitVal(c) = n>>
  ELSE NatText(n \div 10) \o <<CHOOSE c \in DigitChars : DigitVal(c) = n % 10>>

\* ryu's shortest form of a finite float: plain notation while the decimal point
\* lies within (-5, 16] of the first significant digit, else d.ddde[-]x
FloatText(v) ==
  LET sign == IF v.neg THEN <<"-">> ELSE << >>
      zero == v.ip = <<"0">> /\ v.fp = << >>
      lz == LeadingZeros(v.fp)
      digits == IF v.ip = <<"0">> THEN SubSeq(v.fp, lz + 1, Len(v.fp))
                ELSE StripTrailingZeros(v.ip \o v.fp)
      kk == IF v.ip = <<"0">> THEN 0 - lz ELSE Len(v.ip)
      mant == <<digits[1]>> \o
              (IF Len(digits) > 1 THEN <<".">> \o Tail(digits) ELSE << >>)
      expo == IF kk - 1 < 0 THEN <<"-">> \o NatText(1 - kk) ELSE NatText(kk - 1)
  IN IF zero THEN sign \o <<"0", ".", "0">>
     ELSE IF kk > -5 /\ kk <= 16
     THEN sign \o v.ip \o <<".">> \o (IF v.fp = << >> THEN <<"0">> ELSE v.fp)
     ELSE sign \o mant \o <<"e">> \o expo

NumText(v) ==
  IF v.t = "int" THEN (IF v.neg THEN <<"-">> ELSE << >>) \o v.ds
  ELSE FloatText(v)

Indent(n) == [i \in 1..(2 * n) |-> " "]

RECURSIVE KeySeq(_)
KeySeq(S) ==
  IF S = {} THEN << >>
  ELSE LET k == CHOOSE x \in S : TRUE IN <<k>> \o KeySeq(S \ {k})

RECURSIVE ToText(_, _, _)
RECURSIVE ElemsText(_, _, _, _)
RECURSIVE MembersText(_, _, _, _, _)

\* the text of v; pretty: PrettyFormatter with a two-space indent, at depth n
ToText(v, pretty, n) ==
  CASE v.t = "null" -> <<"n","u","l","l">>
    [] v.t = "bool" -> IF v.b THEN <<"t","r","u","e">> ELSE <<"f","a","l","s","e">>
    [] v.t \in {"int", "float"} -> NumText(v)
    [] v.t = "str" -> Quoted(v.s)
    [] v.t = "arr" ->
         IF v.a = << >> THEN <<"[", "]">>
         ELSE <<"[">> \o ElemsText(v.a, 1, pretty, n + 1)
              \o (IF pretty THEN <<"\n">> \o Indent(n) ELSE << >>) \o <<"]">>
    [] v.t = "obj" ->
         IF DOMAIN v.m = {} THEN <<"{", "}">>
         ELSE <<"{">> \o MembersText(v.m, KeySeq(DOMAIN v.m), 1, pretty, n + 1)
              \o (IF pretty THEN <<"\n">> \o Indent(n) ELSE << >>) \o <<"}">>

ElemsText(a, i, pretty, n) ==
  IF i > Len(a) THEN << >>
  ELSE (IF i > 1 THEN <<",">> ELSE << >>)
       \o (IF pretty THEN <<"\n">> \o Indent(n) ELSE << >>)
       \o ToText(a[i], pretty, n)
       \o ElemsText(a, i + 1, pretty, n)

MembersText(m, keys, i, pretty, n) ==
  IF i > Len(keys) THEN << >>
  ELSE (IF i > 1 THEN <<",">> ELSE << >>)
       \o (IF pretty THEN <<"\n">> \o Indent(n) ELSE << >>)
       \o Quoted(keys[i]) \o <<":">> \o (IF pretty THEN <<" ">> ELSE << >>)
       \o ToText(m[keys[i]], pretty, n)
       \o MembersText(m, keys, i + 1, pretty, n)

to_string(v) == ToText(v, FALSE, 0)
to_string_pretty(v) == ToText(v, TRUE, 0)

(***************************************************************************)
(* parse_value_with_type.  value_type is the hint: "string", "integer",    *)
(* "float", "boolean", "null"; None (and any other text) is auto-detect.   *)
(***************************************************************************)
None == "none"

\* the auto-detection that follows a failed serde_json::from_str(value)
AutoDetect(value) ==
  IF EqIgnoreCase(value, <<"t","r","u","e">>) \/ EqIgnoreCase(value, <<"f","a","l","s","e">>)
  THEN Ok(BoolV(EqIgnoreCase(value, <<"t","r","u","e">>)))
  ELSE IF EqIgnoreCase(value, <<"n","u","l","l">>) THEN Ok(Null)
  ELSE IF ParseI64(value).ok THEN Ok(ParseI64(value).v)
  ELSE IF ParseF64(value).ok
  THEN Bind(ParseF64(value).f, LAMBDA num :
         \* num.fract() == 0.0 && num.abs() < 2^53 (fract() of an infinity or of
         \* NaN is NaN); num as i64 drops the sign of -0.0
         IF /\ num.c = "finite"
            /\ num.fp = << >>
            /\ DigitsLeq(num.ip, Two53Digits)
            /\ num.ip # Two53Digits
         THEN Ok(IntV(num.neg /\ num.ip # <<"0">>, num.ip))
         ELSE IF NumberFromF64(num).some THEN Ok(NumberFromF64(num).v)
         ELSE Panic)   \* Number::from_f64(num).unwrap() on None
  ELSE Ok(StrV(value))

parse_value_with_type(value, value_type) ==
  CASE value_type = "string" -> Ok(StrV(value))
    [] value_type = "integer" ->
         IF ParseI64(value).ok THEN Ok(ParseI64(value).v)
         ELSE Err("InvalidValueType", value)
    [] value_type = "float" ->
         IF ParseF64(value).ok THEN Ok(ValueFromF64(ParseF64(value).f))
         ELSE Err("InvalidValueType", value)
    [] value_type = "boolean" ->
         IF ToLower(value) = <<"t","r","u","e">> THEN Ok(BoolV(TRUE))
         ELSE IF ToLower(value) = <<"f","a","l","s","e">> THEN Ok(BoolV(FALSE))
         ELSE Err("InvalidValueType", value)
    [] value_type = "null" -> Ok(Null)
    [] OTHER ->
         Bind(from_str(value), LAMBDA json_value :
           IF json_value.ok THEN Ok(json_value.v) ELSE AutoDetect(value))

(***************************************************************************)
(* set_nested_value.  The source mutates *current in place; the model      *)
(* returns the node as the call leaves it (cur), also when it fails, and   *)
(* the call's result (res).                                                *)
(***************************************************************************)
\* a padding loop that stops one element short:  while array.len() < index
PadShort(array, index) ==
  IF Len(array) < index
  THEN array \o [i \in 1..(index - Len(array)) |-> Null]
  ELSE array

\* while array.len() <= index { array.push(Null) }
Pad(array, index) ==
  IF Len(array) <= index
  THEN array \o [i \in 1..(index + 1 - Len(array)) |-> Null]
  ELSE array

Left(cur, res) == [cur |-> cur, res |-> res]

\* an element write that always lands on the first element
SetElemFirst(array, index, v) == [array EXCEPT ![1] = v]

\* array.get_mut(index).ok_or_else(..)?.clone_from(&parsed_value)
SetElem(array, index, v) == [array EXCEPT ![index + 1] = v]

\* an entry that puts an empty Array over a value that is not an Array
EntryForceArray(m, array_name) ==
  IF array_name \in DOMAIN m /\ m[array_name].t = "arr" THEN m
  ELSE MapPut(m, array_name, ArrV(<< >>))

\* current_obj.entry(array_name).or_insert_with(|| JsonValue::Array(Vec::new()))
EntryOrArray(m, array_name) ==
  IF array_name \in DOMAIN m THEN m ELSE MapPut(m, array_name, ArrV(<< >>))

\* obj.entry(first.clone()).or_insert_with(|| JsonValue::Object(Map::new()))
EntryOrObject(m, first) ==
  IF first \in DOMAIN m THEN m ELSE MapPut(m, first, ObjV(EmptyMap))

RECURSIVE set_nested_value(_, _, _, _, _)

\* the array branch once the index is parsed and the parent is an Object whose
\* entry array_name (obj1: the map with the entry filled) is an Array
SetIndexed(obj1, array_name, index, rest, value, value_type, create_missing) ==
  Bind(IF create_missing THEN Pad(obj1[array_name].a, index) ELSE obj1[array_name].a,
       LAMBDA array :
  LET array_len == Len(array)
      With(a) == ObjV(MapPut(obj1, array_name, ArrV(a)))
  IN
  IF rest = << >>
  THEN
    Bind(parse_value_with_type(value, value_type), LAMBDA parsed_value :
      IF parsed_value.kind # "ok" THEN Left(With(array), parsed_value)
      ELSE IF index >= array_len
      THEN Left(With(array), IndexErr(array_name, index, array_len))
      ELSE Left(With(SetElem(array, index, parsed_value.v)), Ok(Null)))
  ELSE
    IF index >= array_len
    THEN Left(With(array), IndexErr(array_name, index, array_len))
    ELSE
      Bind(set_nested_value(array[index + 1], rest, value, value_type, create_missing),
           LAMBDA r : Left(With(SetElem(array, index, r.cur)), r.res)))

\* a last-segment field write that always builds a fresh Object
SetFinalFieldFresh(current, first, value, value_type, create_missing) ==
  Bind(parse_value_with_type(value, value_type), LAMBDA parsed_value :
    IF parsed_value.kind # "ok" THEN Left(current, parsed_value)
    ELSE Left(ObjV(MapPut(EmptyMap, first, parsed_value.v)), Ok(Null)))

\* the field branch of a last segment
SetFinalField(current, first, value, value_type, create_missing) ==
  Bind(parse_value_with_type(value, value_type), LAMBDA parsed_value :
    IF parsed_value.kind # "ok" THEN Left(current, parsed_value)
    ELSE IF current.t = "obj"
    THEN Left(ObjV(MapPut(current.m, first, parsed_value.v)), Ok(Null))
    ELSE IF create_missing
    THEN Left(ObjV(MapPut(EmptyMap, first, parsed_value.v)), Ok(Null))
    ELSE Left(current, Err("NotAnObject", first)))

\* the field branch of a segment that is not the last: the map to descend into,
\* [ok, m]; ok = FALSE is Err(NotAnObject)
ChildMap(current, first, create_missing) ==
  IF current.t = "obj" THEN [ok |-> TRUE, m |-> EntryOrObject(current.m, first)]
  ELSE IF create_missing THEN [ok |-> TRUE, m |-> EntryOrObject(EmptyMap, first)]
  ELSE [ok |-> FALSE, m |-> EmptyMap]

set_nested_value(current, parts, value, value_type, create_missing) ==
  IF parts = << >> THEN Left(current, Err("FieldNotFound", <<"E","m","p","t","y">>))
  ELSE
  LET first == Head(parts)
      rest == Tail(parts)
  IN
  IF Contains(first, "[")
  THEN
    LET bracket_start == Find(first, "[")
        array_name == Slice(first, 0, bracket_start)
    IN
    \* &first[bracket_start + 1..first.len() - 1] panics when begin > end
    IF bracket_start + 1 > Len(first) - 1 THEN Left(current, Panic)
    ELSE
    LET index_part == Slice(first, bracket_start + 1, Len(first) - 1)
        index == ParseUsize(index_part)
    IN
    IF ~index.ok THEN Left(current, Err("InvalidArrayIndex", index_part))
    ELSE IF current.t # "obj" THEN Left(current, Err("NotAnObject", array_name))
    ELSE
      Bind(EntryOrArray(current.m, array_name), LAMBDA obj1 :
        IF obj1[array_name].t # "arr"
        THEN Left(ObjV(obj1), Err("NotAnArray", array_name))
        ELSE SetIndexed(obj1, array_name, index.n, rest, value, value_type,
                        create_missing))
  ELSE
    IF rest = << >>
    THEN SetFinalField(current, first, value, value_type, create_missing)
    ELSE
      Bind(ChildMap(current, first, create_missing), LAMBDA next :
        IF ~next.ok THEN Left(current, Err("NotAnObject", first))
        ELSE Bind(set_nested_value(next.m[first], rest, value, value_type,
                                   create_missing),
                  LAMBDA r : Left(ObjV(MapPut(next.m, first, r.cur)), r.res)))

(***************************************************************************)
(* How each side takes one piece of a path: as a field (the piece is the   *)
(* name) or as an indexed access (name and index text).                    *)
(***************************************************************************)
AsField(part) == [indexed |-> FALSE, name |-> part, index |-> << >>]
AsIndexed(name, index) == [indexed |-> TRUE, name |-> name, index |-> index]

\* get_nested_value: the test and the slices at the head of the loop body
ReaderSegment(part) ==
  IF Contains(part, "[") /\ EndsWith(part, "]")
  THEN AsIndexed(Slice(part, 0, Find(part, "[")),
                 Slice(part, Find(part, "[") + 1, Len(part) - 1))
  ELSE AsField(part)

\* set_nested_value: the test and the slices at the head of the array branch;
\* the index slice panics when its start is after its end
WriterSegment(first) ==
  IF Contains(first, "[")
  THEN IF Find(first, "[") + 1 > Len(first) - 1
       THEN AsIndexed(Slice(first, 0, Find(first, "[")), "panic")
       ELSE AsIndexed(Slice(first, 0, Find(first, "[")),
                      Slice(first, Find(first, "[") + 1, Len(first) - 1))
  ELSE AsField(first)

\* the pieces the read works on, and the pieces the write works on
ReaderSegments(path) ==
  Bind(StrSplit(path, 1, << >>), LAMBDA parts :
    [i \in DOMAIN parts |-> ReaderSegment(parts[i])])

WriterSegments(path) ==
  Bind(split_field_path(path).parts, LAMBDA parts :
    [i \in DOMAIN parts |-> WriterSegment(parts[i])])

(***************************************************************************)
(* format_output and strip_quotes_internal (get/utils.rs).                 *)
(***************************************************************************)
format_output(v, output_format) ==
  IF output_format = "json-pretty" THEN to_string_pretty(v) ELSE to_string(v)

\* [kind, v]: &s[1..s.len() - 1] panics when the text is a single quote character
strip_quotes_internal(s) ==
  IF \/ StartsWith(s, "\"") /\ EndsWith(s, "\"")
     \/ StartsWith(s, "'") /\ EndsWith(s, "'")
  THEN IF 1 > Len(s) - 1 THEN Panic ELSE Ok(Slice(s, 1, Len(s) - 1))
  ELSE Ok(s)

(***************************************************************************)
(* set_field and extract_field on the text of the file.  [doc, found, res] *)
(* doc: the in-memory document as the call leaves it (NoDoc when the file  *)
(* did not parse); res: what the call returns.                             *)
(***************************************************************************)
NoDoc == [t |-> "none"]
NoResult == [kind |-> "none"]

set_field(content, path, val, vt, cm) ==
  Bind(from_str(content), LAMBDA parsed :
    IF ~parsed.ok THEN [doc |-> NoDoc, res |-> Err("InvalidJson", << >>)]
    ELSE Bind(split_field_path(path), LAMBDA parts :
      IF ~parts.ok THEN [doc |-> parsed.v, res |-> Err("InvalidFieldPath", path)]
      ELSE Bind(set_nested_value(parsed.v, parts.parts, val, vt, cm), LAMBDA w :
        IF w.res.kind # "ok" THEN [doc |-> w.cur, res |-> w.res]
        ELSE [doc |-> w.cur, res |-> Ok(to_string_pretty(w.cur))])))

extract_field(content, path, fmt, strip) ==
  Bind(from_str(content), LAMBDA parsed :
    IF ~parsed.ok
    THEN [doc |-> NoDoc, found |-> NoResult, res |-> Err("InvalidJson", << >>)]
    ELSE Bind(get_nested_value(parsed.v, path), LAMBDA field_value :
      IF field_value.kind # "ok"
      THEN [doc |-> parsed.v, found |-> field_value, res |-> field_value]
      ELSE Bind(format_output(field_value.v, fmt), LAMBDA text :
        [doc |-> parsed.v, found |-> field_value,
         res |-> IF strip THEN strip_quotes_internal(text) ELSE Ok(text)])))

(***************************************************************************)
(* Bounds and inputs.                                                      *)
(***************************************************************************)
\* array indices written in paths: 0..MaxIndex
MaxIndex == 2
\* segments in a path
MaxSegs == 2

Names == {<<"a">>, <<"b">>}

\* well-formed segments: a, b, a[0] .. a[MaxIndex]
GoodChunks ==
  Names \cup {<<"a", "[">> \o NatText(i) \o <<"]">> : i \in 0..MaxIndex}

\* empty and malformed segments
OddChunks ==
  {<< >>,
   <<"a", "[">>,
   <<"a", "[", "0">>,
   <<"a", "[", "0", "]", "x">>,
   <<"a", "[", "0", "]", "[", "1", "]">>,
   <<"a", "[", "x", "]">>,
   <<"a", "[", "]">>,
   <<"a", "[", "+", "1", "]">>,
   <<"[", "0", "]">>,
   <<"a", "]">>,
   <<"a", "[", "1", "x">>}

RECURSIVE Join(_)
Join(q) ==
  IF Len(q) = 0 THEN << >>
  ELSE IF Len(q) = 1 THEN q[1]
  ELSE q[1] \o <<".">> \o Join(Tail(q))

GoodSeqs == UNION {[1..k -> GoodChunks] : k \in 1..MaxSegs}

\* the path strings of the calls: the well-formed paths, and those with one odd
\* segment, last after well-formed ones or first before a well-formed one
Paths ==
  {Join(q) : q \in GoodSeqs}
  \cup {Join(Append(q, o)) : q \in {x \in GoodSeqs \cup {<< >>} : Len(x) < MaxSegs},
                            o \in OddChunks}
  \cup {Join(<<o, g>>) : o \in OddChunks, g \in GoodChunks}

\* the documents the file holds at the start
InitDocs ==
  {\* {}
   ObjV(EmptyMap),
   \* {"a": ["x", 2], "b": true}
   ObjV((<<"a">> :> ArrV(<<StrV(<<"x">>), IntV(FALSE, <<"2">>)>>)) @@ (<<"b">> :> BoolV(TRUE))),
   \* {"a": {"b": 1}}
   ObjV((<<"a">> :> ObjV((<<"b">> :> IntV(FALSE, <<"1">>))))),
   \* {"a": 5, "b": null}
   ObjV((<<"a">> :> IntV(FALSE, <<"5">>)) @@ (<<"b">> :> Null)),
   \* {"a": [{"b": 1.5}, [true]]}
   ObjV((<<"a">> :> ArrV(<<ObjV((<<"b">> :> FloatV(FALSE, <<"1">>, <<"5">>))), ArrV(<<BoolV(TRUE)>>)>>))),
   \* {"a[0": 1, "b": {"a": ["s"]}}
   ObjV((<<"a", "[", "0">> :> IntV(FALSE, <<"1">>)) @@ (<<"b">> :> ObjV((<<"a">> :> ArrV(<<StrV(<<"s">>)>>))))),
   \* [1, 2]
   ArrV(<<IntV(FALSE, <<"1">>), IntV(FALSE, <<"2">>)>>)}

\* the texts the file holds at the start: the documents, and a text that is not JSON
InitFiles == {to_string_pretty(d) : d \in InitDocs} \cup {<<"{">>}

\* raw value and type hint of a write
RawValues ==
  {<<<<"1">>, None>>,
   <<<<"h", "i">>, None>>,
   <<<<"x">>, "integer">>,
   <<<<"4", ".", "5">>, "string">>,
   <<<<"i", "n", "f">>, None>>}

OutputFormats == {None, "json-pretty", "json"}

(***************************************************************************)
(* State.                                                                  *)
(***************************************************************************)
VARIABLES
  file,            \* the text of the JSON file
  op,              \* the call in progress: "init" (none), "set", "get", "split", "coerce"
  field_path,      \* config.field_path of the last call
  value,           \* config.value
  value_type,      \* config.value_type
  create_missing,  \* config.create_missing
  output_format,   \* config.output_format
  strip_quotes,    \* config.strip_quotes
  json_value,      \* the in-memory document as the last call left it
  found,           \* what get_nested_value returned in the last read
  result           \* what the last call returned

vars == <<file, op, field_path, value, value_type, create_missing, output_format,
          strip_quotes, json_value, found, result>>

\* SetConfig::default() / ExtractConfig::default(), apart from the path
NoCall ==
  /\ op = "init"
  /\ field_path = <<"n","a","m","e">>
  /\ value = << >>
  /\ value_type = None
  /\ create_missing = FALSE
  /\ output_format = None
  /\ strip_quotes = FALSE
  /\ json_value = NoDoc
  /\ found = NoResult
  /\ result = NoResult

Init == file \in InitFiles /\ NoCall

\* the JSON text of the value the reader finds at path, if any (a write-back)
WriteBack(path) ==
  Bind(from_str(file), LAMBDA parsed :
    IF ~parsed.ok THEN {}
    ELSE Bind(get_nested_value(parsed.v, path), LAMBDA v :
      IF v.kind = "ok" THEN {<<to_string(v.v), None>>} ELSE {}))

\* set_field(&SetConfig { field_path, value, value_type, create_missing, .. })
SetField ==
  /\ op = "init"
  /\ \E path \in Paths, cm \in BOOLEAN :
      \E rv \in RawValues \cup WriteBack(path) :
      LET r == set_field(file, path, rv[1], rv[2], cm) IN
      /\ op' = "set"
      /\ field_path' = path
      /\ value' = rv[1]
      /\ value_type' = rv[2]
      /\ create_missing' = cm
      /\ output_format' = None
      /\ strip_quotes' = FALSE
      /\ json_value' = r.doc
      /\ found' = NoResult
      /\ result' = r.res
      /\ UNCHANGED file

\* extract_field(&ExtractConfig { field_path, output_format, strip_quotes, .. })
ExtractField ==
  /\ op = "init"
  /\ \E path \in Paths, fmt \in OutputFormats, strip \in BOOLEAN :
    LET r == extract_field(file, path, fmt, strip) IN
    /\ op' = "get"
    /\ field_path' = path
    /\ value' = << >>
    /\ value_type' = None
    /\ create_missing' = FALSE
    /\ output_format' = fmt
    /\ strip_quotes' = strip
    /\ json_value' = r.doc
    /\ found' = r.found
    /\ result' = r.res
    /\ UNCHANGED file

\* the call has returned: its configuration and in-memory document are dropped
Return ==
  /\ op # "init"
  /\ op' = "init"
  /\ field_path' = <<"n","a","m","e">>
  /\ value' = << >>
  /\ value_type' = None
  /\ create_missing' = FALSE
  /\ output_format' = None
  /\ strip_quotes' = FALSE
  /\ json_value' = NoDoc
  /\ found' = NoResult
  /\ result' = NoResult
  /\ UNCHANGED file

Next == SetField \/ ExtractField \/ Return

Spec == Init /\ [][Next]_vars

(***************************************************************************)
(* The path splitter and the value coercer on their own: the call applies  *)
(* the function to an input, result holds what it returned.                *)
(***************************************************************************)
\* characters of a path text, and the longest path text
PathChars == {"a", "b", ".", "[", "]", "0"}
MaxPathLen == 4

PathTexts == UNION {[1..n -> PathChars] : n \in 0..MaxPathLen}

\* characters of a generated raw value, and the longest generated raw value
RawChars == {"4", "0", "5", ".", "-", "+"}
MaxRawLen == 3

RawTexts ==
  UNION {[1..n -> RawChars] : n \in 0..MaxRawLen}
  \cup {<<"4", "2", ".", "0">>,
        <<"4", "2", ".", "5">>,
        <<"4", "2">>,
        <<"t", "r", "u", "e">>,
        <<"h", "e", "l", "l", "o">>,
        <<"T", "R", "U", "E">>,
        <<"F", "a", "l", "s", "e">>,
        <<"n", "u", "l", "l">>,
        <<"N", "u", "l", "l">>,
        <<"i", "n", "f">>,
        <<"N", "a", "N">>,
        <<"-", "i", "n", "f">>,
        <<"i", "n", "f", "i", "n", "i", "t", "y">>,
        <<"+", "4", "2">>,
        <<"4", "2", ".">>,
        <<".", "5">>,
        <<"1", "e", "2">>,
        <<"-", "0">>,
        <<"\"", "h", "i", "\"">>,
        <<"[", "1", "]">>,
        <<"{", "}">>,
        <<" ", "4">>,
        <<"9", "0", "0", "7", "1", "9", "9", "2", "5", "4", "7", "4", "0", "9", "9", "1", ".", "0">>,
        <<"9", "0", "0", "7", "1", "9", "9", "2", "5", "4", "7", "4", "0", "9", "9", "2", ".", "0">>,
        <<"9", "2", "2", "3", "3", "7", "2", "0", "3", "6", "8", "5", "4", "7", "7", "5", "8", "0", "8">>,
        <<"1", "e", "9", "9", "9">>}

Hints == {None, "string", "integer", "float", "boolean", "null"}

SplitPath ==
  /\ op = "init"
  /\ \E path \in PathTexts :
       /\ op' = "split"
       /\ field_path' = path
       /\ result' = IF split_field_path(path).ok THEN Ok(split_field_path(path).parts)
                    ELSE Err("InvalidFieldPath", path)
  /\ UNCHANGED <<file, value, value_type, create_missing, output_format, strip_quotes,
                 json_value, found>>

Coerce ==
  /\ op = "init"
  /\ \E raw \in RawTexts, hint \in Hints :
       /\ op' = "coerce"
       /\ value' = raw
       /\ value_type' = hint
       /\ result' = parse_value_with_type(raw, hint)
  /\ UNCHANGED <<file, field_path, create_missing, output_format, strip_quotes,
                 json_value, found>>

InitOne == file = <<"{", "}">> /\ NoCall

SpecPath == InitOne /\ [][SplitPath \/ Return]_vars

SpecCoerce == InitOne /\ [][Coerce \/ Return]_vars

(***************************************************************************)
(* strip_quotes on its own: value holds the input, result what it returned.*)
(***************************************************************************)
\* characters of an input of strip_quotes, and the longest input
StripChars == {"\"", "'", "a"}
MaxStripLen == 4

StripTexts == UNION {[1..n -> StripChars] : n \in 0..MaxStripLen}

\* pub fn strip_quotes(s) { strip_quotes_internal(s) }
StripQuotes ==
  /\ op = "init"
  /\ \E s \in StripTexts :
       /\ op' = "strip"
       /\ value' = s
       /\ result' = strip_quotes_internal(s)
  /\ UNCHANGED <<file, field_path, value_type, create_missing, output_format,
                 strip_quotes, json_value, found>>

(***************************************************************************)
(* set_field and set_field_and_save, call after call on the same file.     *)
(***************************************************************************)
SaveFiles == {<<"{", "}">>, <<"{">>, <<"{", "\"", "a", "\"", ":", "[", "5", "]", "}">>}

SavePaths ==
  {<<"a">>, <<"b", ".", "a">>, <<"a", "[", "1", "]">>, <<"a", "[">>, <<"a", ".">>}

SaveValues ==
  {<<<<"1">>, None>>, <<<<"x">>, "integer">>, <<<<"i", "n", "f">>, None>>}

\* Ok(()) of set_field_and_save
Unit == [t |-> "unit"]

\* a save that writes the in-memory document back whatever set_field returned
PersistAlways(content, r, written) ==
  IF r.doc # NoDoc /\ written THEN to_string_pretty(r.doc) ELSE content

\* the text of the file after  set_field(config)?; fs::write(file_path, updated_content)?
\* r: what set_field returned; written: fs::write succeeded
Persist(content, r, written) ==
  IF r.res.kind = "ok" /\ written THEN r.res.v ELSE content

\* what set_field_and_save returns
SaveResult(r, written) ==
  IF r.res.kind # "ok" THEN r.res
  ELSE IF written THEN Ok(Unit)
  ELSE Err("IoError", << >>)

\* set_field on the file as it is now; the updated text goes to the caller
SetFieldCall ==
  /\ op = "init"
  /\ \E path \in SavePaths, cm \in BOOLEAN, rv \in SaveValues :
      \E r \in {set_field(file, path, rv[1], rv[2], cm)} :
      /\ op' = "set"
      /\ field_path' = path
      /\ value' = rv[1]
      /\ value_type' = rv[2]
      /\ create_missing' = cm
      /\ json_value' = r.doc
      /\ result' = r.res
      /\ UNCHANGED <<file, output_format, strip_quotes, found>>

\* set_field_and_save on the file as it is now
SetFieldAndSave ==
  /\ op = "init"
  /\ \E path \in SavePaths, cm \in BOOLEAN, rv \in SaveValues, written \in BOOLEAN :
      \E r \in {set_field(file, path, rv[1], rv[2], cm)} :
      /\ op' = "save"
      /\ field_path' = path
      /\ value' = rv[1]
      /\ value_type' = rv[2]
      /\ create_missing' = cm
      /\ json_value' = r.doc
      /\ result' = SaveResult(r, written)
      /\ file' = Persist(file, r, written)
      /\ UNCHANGED <<output_format, strip_quotes, found>>

InitSave == file \in SaveFiles /\ NoCall

SpecSave == InitSave /\ [][SetFieldCall \/ SetFieldAndSave \/ Return]_vars

\* the writes alone
SpecWrite == Init /\ [][SetField \/ Return]_vars

SpecStrip == InitOne /\ [][StripQuotes \/ Return]_vars

(***************************************************************************)
(* Properties.                                                             *)
(*                                                                         *)
(* The path grammar: a path is a sequence of segments, a segment is a      *)
(* Field (a name) or an Indexed (a name and an index); idx = -1 marks a    *)
(* Field.  Render gives the text of a segment.                             *)
(***************************************************************************)
FieldSeg(name) == [name |-> name, idx |-> -1]
IndexedSeg(name, idx) == [name |-> name, idx |-> idx]

IsField(seg) == seg.idx = -1

Segs == {FieldSeg(n) : n \in Names} \cup {IndexedSeg(<<"a">>, i) : i \in 0..MaxIndex}

SegSeqs == UNION {[1..k -> Segs] : k \in 1..MaxSegs}

Render(seg) ==
  IF IsField(seg) THEN seg.name
  ELSE seg.name \o <<"[">> \o NatText(seg.idx) \o <<"]">>

RenderPath(q) == Join([i \in DOMAIN q |-> Render(q[i])])

\* the pieces of a path text between its dots
RECURSIVE Pieces(_, _, _)
Pieces(p, i, piece) ==
  IF i > Len(p) THEN <<piece>>
  ELSE IF p[i] = "." THEN <<piece>> \o Pieces(p, i + 1, << >>)
  ELSE Pieces(p, i + 1, Append(piece, p[i]))

\* the segment sequences whose text is the path of the call: none when the
\* path is not grammar-valid, one when it is
SegsOfCall ==
  LET pieces == Pieces(field_path, 1, << >>)
  IN IF Len(pieces) <= MaxSegs /\ \A i \in DOMAIN pieces : \E g \in Segs : Render(g) = pieces[i]
     THEN {[i \in DOMAIN pieces |-> CHOOSE g \in Segs : Render(g) = pieces[i]]}
     ELSE {}

\* the call parsed the file; the document the file held when it did
Parsed == json_value # NoDoc
Before == from_str(file).v

\* the typed value of the write
new_value == parse_value_with_type(value, value_type)

(***************************************************************************)
(* Resolution of a segment sequence as section 4.2 of the specification    *)
(* words it, segment by segment from the root.                             *)
(***************************************************************************)
RECURSIVE Resolve(_, _, _)
Resolve(current, q, k) ==
  IF k > Len(q) THEN Ok(current)
  ELSE IF ~(current.t = "obj" /\ q[k].name \in DOMAIN current.m)
  THEN Err("FieldNotFound", q[k].name)
  ELSE LET child == current.m[q[k].name]
       IN IF IsField(q[k]) THEN Resolve(child, q, k + 1)
          ELSE IF child.t # "arr" THEN Err("NotAnArray", q[k].name)
          ELSE IF q[k].idx >= Len(child.a)
          THEN IndexErr(q[k].name, q[k].idx, Len(child.a))
          ELSE Resolve(child.a[q[k].idx + 1], q, k + 1)

(***************************************************************************)
(* C1: for a grammar-valid path P that resolves in the document to V,      *)
(* writing V's JSON text at P with no type hint, create_missing set or     *)
(* not, succeeds, leaves the document structurally as it was, and P then   *)
(* reads as V.                                                             *)
(***************************************************************************)
C1_SetThenGet ==
  (op = "set" /\ Parsed /\ value_type = None) =>
    LET D == Before
    IN \A q \in SegsOfCall :
         LET r == Resolve(D, q, 1)
         IN (r.kind = "ok" /\ value = to_string(r.v)) =>
              /\ result.kind = "ok"
              /\ json_value = D
              /\ get_nested_value(json_value, field_path) = Ok(r.v)

\* the element a[1] = 2 of {"a": ["x", 2], "b": true} written back in place
C1_Witness ==
  /\ op = "set" /\ Parsed /\ value_type = None /\ ~create_missing
  /\ field_path = <<"a", "[", "1", "]">>
  /\ Resolve(Before, <<IndexedSeg(<<"a">>, 1)>>, 1) = Ok(IntV(FALSE, <<"2">>))
  /\ value = <<"2">>
  /\ result.kind = "ok"

(***************************************************************************)
(* C2: a write that meets a non-terminal Field segment whose key is        *)
(* absent from the Object it has reached fails with not-an-object and      *)
(* creates no container when create_missing is unset, and inserts an       *)
(* empty Object under the key and goes on when it is set.  Stated for the  *)
(* writes whose raw value coerces to a typed value.                        *)
(***************************************************************************)
\* the write reaches segment k of q over containers the document already has
Reaches(D, q, k) == Resolve(D, SubSeq(q, 1, k - 1), 1)

MissingIntermediate(D, q, k) ==
  /\ k < Len(q) /\ IsField(q[k])
  /\ Reaches(D, q, k).kind = "ok"
  /\ Reaches(D, q, k).v.t = "obj"
  /\ q[k].name \notin DOMAIN Reaches(D, q, k).v.m

C2_MissingIntermediate ==
  (op = "set" /\ Parsed /\ new_value.kind = "ok") =>
    LET D == Before
    IN \A q \in SegsOfCall : \A k \in DOMAIN q :
      MissingIntermediate(D, q, k) =>
        IF create_missing
        THEN LET made == Resolve(json_value, SubSeq(q, 1, k), 1)
             IN made.kind = "ok" /\ made.v.t = "obj"
        ELSE result.kind = "NotAnObject" /\ json_value = D

(***************************************************************************)
(* C3: for every path string, a write that succeeds is followed by a read  *)
(* of the same path string that returns exactly the value written.         *)
(***************************************************************************)
C3_WriteThenRead ==
  (op = "set" /\ result.kind = "ok") =>
    get_nested_value(json_value, field_path)
      = Ok(parse_value_with_type(value, value_type).v)

(***************************************************************************)
(* C4: the reader resolves a path segment by segment from the root: a      *)
(* segment's name must be a key of the current Object (field-not-found),   *)
(* an Indexed segment's value must be an Array (not-an-array) with more    *)
(* than idx elements (array-index-out-of-bounds carrying idx and the       *)
(* length), and the value left after the last segment is returned.         *)
(***************************************************************************)
C4_ReaderResolution ==
  (op = "get" /\ Parsed) =>
    \A q \in SegsOfCall : found = Resolve(json_value, q, 1)

\* a[2] read against {"a": ["x", 2], "b": true}: out of bounds, length 2
C4_Witness ==
  /\ op = "get" /\ Parsed
  /\ field_path = <<"a", "[", "2", "]">>
  /\ found = IndexErr(<<"a">>, 2, 2)

(***************************************************************************)
(* C10: a segment of the path that contains '[' but is not of the form     *)
(* name[digits] (no closing ']', text after it, more than one bracket      *)
(* pair, an index that is not all decimal digits) makes the read and the   *)
(* write alike return invalid-array-index; neither crashes, neither takes  *)
(* it as another segment.                                                  *)
(***************************************************************************)
\* name[digits]: a non-empty name without brackets, one or more digits
WellFormedIndexed(chunk) ==
  \E i \in 2..(Len(chunk) - 2) :
    /\ chunk[i] = "[" /\ chunk[Len(chunk)] = "]"
    /\ \A j \in 1..(i - 1) : chunk[j] \notin {"[", "]"}
    /\ \A j \in (i + 1)..(Len(chunk) - 1) : chunk[j] \in DigitChars

Malformed(chunk) == Contains(chunk, "[") /\ ~WellFormedIndexed(chunk)

\* the segments of a path text: the pieces between its dots
ChunksOf(path) == Pieces(path, 1, << >>)

HasMalformed(path) == \E i \in DOMAIN ChunksOf(path) : Malformed(ChunksOf(path)[i])

C10_MalformedRejected ==
  (op \in {"set", "get"} /\ Parsed /\ HasMalformed(field_path)) =>
    result.kind = "InvalidArrayIndex"

(***************************************************************************)
(* C5: split_field_path fails with invalid-field-path for the empty path   *)
(* and for a path with a leading dot, a trailing dot or two consecutive    *)
(* dots outside brackets; otherwise it returns, in order, the non-empty    *)
(* chunks between the dots outside brackets, and a dot inside brackets     *)
(* never splits.  A dot is outside brackets when the nearest bracket       *)
(* character before it, if there is one, is ']'.                           *)
(***************************************************************************)
OutsideDot(p, i) ==
  /\ p[i] = "."
  /\ \A j \in 1..(i - 1) :
       p[j] = "[" => \E n \in (j + 1)..(i - 1) : p[n] \in {"[", "]"}

OutsideDots(p) == {i \in 1..Len(p) : OutsideDot(p, i)}

Rejected(p) ==
  \/ p = << >>
  \/ OutsideDot(p, 1)
  \/ OutsideDot(p, Len(p))
  \/ \E i \in 1..(Len(p) - 1) : OutsideDot(p, i) /\ OutsideDot(p, i + 1)

\* the position of the n-th outside dot; 0 before the first, Len(p) + 1 after the last
DotAt(p, n) ==
  IF n = 0 THEN 0
  ELSE IF n > Cardinality(OutsideDots(p)) THEN Len(p) + 1
  ELSE CHOOSE i \in OutsideDots(p) : Cardinality({x \in OutsideDots(p) : x < i}) = n - 1

ChunksBetween(p) ==
  [n \in 1..(Cardinality(OutsideDots(p)) + 1) |->
     SubSeq(p, DotAt(p, n - 1) + 1, DotAt(p, n) - 1)]

C5_Segmentation ==
  (op = "split") =>
    IF Rejected(field_path)
    THEN result.kind = "InvalidFieldPath"
    ELSE /\ result = Ok(ChunksBetween(field_path))
         /\ Len(result.v) >= 1
         /\ \A n \in DOMAIN result.v : result.v[n] # << >>

\* a.[.] : one dot splits, the dot between the brackets does not
C5_Witness ==
  /\ op = "split"
  /\ field_path = <<"a", ".", "[", ".">>
  /\ result = Ok(<< <<"a">>, <<"[", ".">> >>)

(***************************************************************************)
(* C6: coerced without a type hint, a decimal literal whose fractional     *)
(* part is zero and whose magnitude is below 2^53 becomes an integer       *)
(* Number ("42.0" gives 42), "42.5" becomes a floating-point Number,       *)
(* "true" Bool true and "hello" the String "hello".                        *)
(***************************************************************************)
\* digits '.' zeros, the digits below 2^53
ZeroFraction(raw) ==
  \E i \in 2..(Len(raw) - 1) :
    /\ raw[i] = "."
    /\ \A j \in 1..(i - 1) : raw[j] \in DigitChars
    /\ \A j \in (i + 1)..Len(raw) : raw[j] = "0"
    /\ DigitsLeq(StripZeros(SubSeq(raw, 1, i - 1)), Two53Digits)
    /\ StripZeros(SubSeq(raw, 1, i - 1)) # Two53Digits

IntegerPart(raw) == StripZeros(SubSeq(raw, 1, Find(raw, ".")))

C6_FoldToInteger ==
  (op = "coerce" /\ value_type = None) =>
    /\ ZeroFraction(value) => result = Ok(IntV(FALSE, IntegerPart(value)))
    /\ value = <<"4", "2", ".", "5">> => result = Ok(FloatV(FALSE, <<"4", "2">>, <<"5">>))
    /\ value = <<"t", "r", "u", "e">> => result = Ok(BoolV(TRUE))
    /\ value = <<"h", "e", "l", "l", "o">> => result = Ok(StrV(value))

(***************************************************************************)
(* C7: with an explicit type hint the variant of the outcome is the one    *)
(* the hint names, for every raw text: string gives String(raw), integer   *)
(* an integer Number or invalid-value-type, float a floating-point Number  *)
(* or invalid-value-type, boolean a Bool for true/false in any case and    *)
(* invalid-value-type otherwise, null gives Null.                          *)
(***************************************************************************)
IsInvalidValueType(r) == r.kind = "InvalidValueType" /\ r.msg = value

C7_StrictHint ==
  (op = "coerce" /\ value_type # None) =>
    CASE value_type = "string" -> result = Ok(StrV(value))
      [] value_type = "integer" ->
           (result.kind = "ok" /\ result.v.t = "int") \/ IsInvalidValueType(result)
      [] value_type = "float" ->
           (result.kind = "ok" /\ result.v.t = "float") \/ IsInvalidValueType(result)
      [] value_type = "boolean" ->
           IF ToLower(value) \in {<<"t", "r", "u", "e">>, <<"f", "a", "l", "s", "e">>}
           THEN result = Ok(BoolV(ToLower(value) = <<"t", "r", "u", "e">>))
           ELSE IsInvalidValueType(result)
      [] value_type = "null" -> result = Ok(Null)

(***************************************************************************)
(* C8: a successful write whose last segment is name[idx], idx below the   *)
(* length of the array, replaces element idx and nothing else: the length  *)
(* of the array, its other elements and every other key and value of the   *)
(* document are as before.                                                 *)
(***************************************************************************)
\* E is D but for what lies at segments k.. of q
RECURSIVE FrameAt(_, _, _, _)
FrameAt(D, E, q, k) ==
  /\ D.t = "obj" /\ E.t = "obj"
  /\ DOMAIN E.m = DOMAIN D.m
  /\ \A key \in DOMAIN D.m \ {q[k].name} : E.m[key] = D.m[key]
  /\ LET d == D.m[q[k].name]
         e == E.m[q[k].name]
     IN IF IsField(q[k])
        THEN k = Len(q) \/ FrameAt(d, e, q, k + 1)
        ELSE /\ d.t = "arr" /\ e.t = "arr"
             /\ Len(e.a) = Len(d.a)
             /\ \A j \in (1..Len(d.a)) \ {q[k].idx + 1} : e.a[j] = d.a[j]
             /\ k = Len(q) \/ FrameAt(d.a[q[k].idx + 1], e.a[q[k].idx + 1], q, k + 1)

C8_ElementWriteFrame ==
  (op = "set" /\ Parsed /\ result.kind = "ok") =>
    LET D == Before
    IN \A q \in SegsOfCall :
         (~IsField(q[Len(q)]) /\ Resolve(D, q, 1).kind = "ok") =>
           /\ FrameAt(D, json_value, q, 1)
           /\ Resolve(json_value, q, 1) = Ok(parse_value_with_type(value, value_type).v)

\* a[1] = "hi" on {"a": ["x", 2], "b": true} gives {"a": ["x", "hi"], "b": true}
C8_Witness ==
  /\ op = "set" /\ Parsed /\ result.kind = "ok"
  /\ field_path = <<"a", "[", "1", "]">>
  /\ value = <<"h", "i">>
  /\ Before = ObjV((<<"a">> :> ArrV(<<StrV(<<"x">>), IntV(FALSE, <<"2">>)>>))
                   @@ (<<"b">> :> BoolV(TRUE)))
  /\ json_value = ObjV((<<"a">> :> ArrV(<<StrV(<<"x">>), StrV(<<"h", "i">>)>>))
                      @@ (<<"b">> :> BoolV(TRUE)))

(***************************************************************************)
(* C9: when a write with the value new_value reaches an Indexed segment    *)
(* name[idx] whose array has idx or fewer elements: with create_missing    *)
(* set the array is padded with Null to exactly idx + 1 elements, the      *)
(* elements it had keep their values and positions, and element idx is     *)
(* overwritten with new_value (last segment) or descended into (a segment  *)
(* before the last); with create_missing unset the write fails with        *)
(* array-index-out-of-bounds carrying idx and the length the array had,    *)
(* and the array is unchanged.                                             *)
(***************************************************************************)
\* the node reached before segment k holds an array under the segment's name
HasArray(D, q, k) ==
  /\ Reaches(D, q, k).kind = "ok"
  /\ Reaches(D, q, k).v.t = "obj"
  /\ q[k].name \in DOMAIN Reaches(D, q, k).v.m
  /\ Reaches(D, q, k).v.m[q[k].name].t = "arr"

ArrayAt(D, q, k) == Reaches(D, q, k).v.m[q[k].name].a

BeyondEnd(D, q, k) ==
  ~IsField(q[k]) /\ HasArray(D, q, k) /\ q[k].idx >= Len(ArrayAt(D, q, k))

\* the texts of the segments after segment k
RestOf(q, k) == [i \in 1..(Len(q) - k) |-> Render(q[k + i])]

C9_ArrayExtension ==
  (op = "set" /\ Parsed) =>
    LET D == Before
    IN \A q \in SegsOfCall : \A k \in DOMAIN q :
      (BeyondEnd(D, q, k) /\ (k = Len(q) => new_value.kind = "ok")) =>
        /\ HasArray(json_value, q, k)
        /\ LET old == ArrayAt(D, q, k)
               new == ArrayAt(json_value, q, k)
               idx == q[k].idx
           IN IF create_missing
              THEN /\ Len(new) = idx + 1
                   /\ \A j \in 1..Len(old) : new[j] = old[j]
                   /\ \A j \in (Len(old) + 1)..idx : new[j] = Null
                   /\ IF k = Len(q)
                      THEN new[idx + 1] = new_value.v /\ result.kind = "ok"
                      ELSE LET r == set_nested_value(Null, RestOf(q, k), value,
                                                     value_type, TRUE)
                           IN /\ new[idx + 1] = r.cur
                              /\ (result.kind = "ok") = (r.res.kind = "ok")
                              /\ r.res.kind # "ok" => result = r.res
              ELSE /\ new = old
                   /\ result = IndexErr(q[k].name, idx, Len(old))

\* b.a[2] = "hi" with create_missing on {"a[0": 1, "b": {"a": ["s"]}}:
\* the array becomes ["s", null, "hi"]
C9_Witness ==
  /\ op = "set" /\ Parsed /\ create_missing /\ result.kind = "ok"
  /\ field_path = <<"b", ".", "a", "[", "2", "]">>
  /\ value = <<"h", "i">>
  /\ Resolve(Before, <<FieldSeg(<<"b">>), FieldSeg(<<"a">>)>>, 1)
       = Ok(ArrV(<<StrV(<<"s">>)>>))
  /\ Resolve(json_value, <<FieldSeg(<<"b">>), FieldSeg(<<"a">>)>>, 1)
       = Ok(ArrV(<<StrV(<<"s">>), Null, StrV(<<"h", "i">>)>>))

(***************************************************************************)
(* C11: strip_quotes never fails, for any input, the empty text and a      *)
(* single quote character included: when the first and the last character  *)
(* are the same quote character (" or ') the result is the input without   *)
(* those two characters, otherwise it is the input unchanged.              *)
(***************************************************************************)
Quotes == {"\"", "'"}

HasQuoteLayer(s) == Len(s) >= 2 /\ s[1] \in Quotes /\ s[Len(s)] = s[1]

\* the first and last character of s are the same quote character
QuoteEnds(s) == Len(s) >= 1 /\ s[1] \in Quotes /\ s[Len(s)] = s[1]

C11_StripQuotesTotal ==
  (op = "strip") =>
    /\ result.kind = "ok"
    /\ HasQuoteLayer(value) => result.v = SubSeq(value, 2, Len(value) - 1)
    /\ ~QuoteEnds(value) => result.v = value

(***************************************************************************)
(* C12: a write with create_missing unset, whether it succeeds or fails,   *)
(* replaces or removes no value the document held before the call, other   *)
(* than the value at the target location of a successful write; a node     *)
(* that is not an Object where an Object is needed, and a value that is    *)
(* not an Array under an indexed name, stay as they were and the write     *)
(* fails.                                                                  *)
(***************************************************************************)
\* every value of d is in e where it was in d (e may hold more keys and elements)
RECURSIVE Keeps(_, _)
Keeps(d, e) ==
  IF d.t = "obj"
  THEN /\ e.t = "obj"
       /\ DOMAIN d.m \subseteq DOMAIN e.m
       /\ \A key \in DOMAIN d.m : Keeps(d.m[key], e.m[key])
  ELSE IF d.t = "arr"
  THEN /\ e.t = "arr"
       /\ Len(e.a) >= Len(d.a)
       /\ \A j \in 1..Len(d.a) : Keeps(d.a[j], e.a[j])
  ELSE e = d

\* as Keeps, but for the value at segments k.. of q
RECURSIVE KeepsExcept(_, _, _, _)
KeepsExcept(d, e, q, k) ==
  IF d.t # "obj" \/ q[k].name \notin DOMAIN d.m THEN Keeps(d, e)
  ELSE
    /\ e.t = "obj"
    /\ DOMAIN d.m \subseteq DOMAIN e.m
    /\ \A key \in DOMAIN d.m \ {q[k].name} : Keeps(d.m[key], e.m[key])
    /\ LET dc == d.m[q[k].name]
           ec == e.m[q[k].name]
       IN IF IsField(q[k])
          THEN k = Len(q) \/ KeepsExcept(dc, ec, q, k + 1)
          ELSE IF dc.t # "arr" THEN Keeps(dc, ec)
          ELSE /\ ec.t = "arr"
               /\ Len(ec.a) >= Len(dc.a)
               /\ \A j \in (1..Len(dc.a)) \ {q[k].idx + 1} : Keeps(dc.a[j], ec.a[j])
               /\ \/ q[k].idx >= Len(dc.a)
                  \/ k = Len(q)
                  \/ KeepsExcept(dc.a[q[k].idx + 1], ec.a[q[k].idx + 1], q, k + 1)

\* every value but what lies under one key or one element of the root is kept
KeepsButOne(d, e) ==
  \/ Keeps(d, e)
  \/ /\ d.t = "obj" /\ e.t = "obj" /\ DOMAIN d.m \subseteq DOMAIN e.m
     /\ \E one \in DOMAIN d.m : \A key \in DOMAIN d.m \ {one} : Keeps(d.m[key], e.m[key])
  \/ /\ d.t = "arr" /\ e.t = "arr" /\ Len(e.a) >= Len(d.a)
     /\ \E one \in 1..Len(d.a) : \A j \in (1..Len(d.a)) \ {one} : Keeps(d.a[j], e.a[j])

\* the write meets, at segment k of q, a node that is not an Object, or a
\* value that is not an Array under the name of an Indexed segment
WrongType(D, q, k) ==
  /\ Reaches(D, q, k).kind = "ok"
  /\ \/ Reaches(D, q, k).v.t # "obj"
     \/ /\ ~IsField(q[k])
        /\ q[k].name \in DOMAIN Reaches(D, q, k).v.m
        /\ Reaches(D, q, k).v.m[q[k].name].t # "arr"

C12_ConservativeDefault ==
  (op = "set" /\ Parsed /\ ~create_missing) =>
    LET D == Before
    IN /\ IF result.kind = "ok"
          THEN /\ KeepsButOne(D, json_value)
               /\ \A q \in SegsOfCall : KeepsExcept(D, json_value, q, 1)
          ELSE Keeps(D, json_value)
       /\ \A q \in SegsOfCall : \A k \in DOMAIN q :
            WrongType(D, q, k) => result.kind # "ok" /\ json_value = D

\* a[0] = 1 on {"a": 5, "b": null}: not-an-array, and a is still 5
C12_Witness ==
  /\ op = "set" /\ Parsed /\ ~create_missing
  /\ field_path = <<"a", "[", "0", "]">>
  /\ value = <<"1">>
  /\ result.kind = "NotAnArray"
  /\ json_value = ObjV((<<"a">> :> IntV(FALSE, <<"5">>)) @@ (<<"b">> :> Null))

(***************************************************************************)
(* C13: the read works on the path parser's segmentation: for every path   *)
(* text the read and the write split it into the same segments, each       *)
(* taken the same way (Field, or Indexed with the same name and index),    *)
(* and a read of a path the parser rejects (an empty segment) fails with   *)
(* invalid-field-path.                                                     *)
(***************************************************************************)
C13_ReaderUsesParser ==
  (op \in {"set", "get"} /\ Parsed) =>
    IF split_field_path(field_path).ok
    THEN ReaderSegments(field_path) = WriterSegments(field_path)
    ELSE op = "get" => result.kind = "InvalidFieldPath"

(***************************************************************************)
(* C14: without a type hint the coercion returns a JSON value for every    *)
(* raw text, never an error, never an abort; a text that is not a JSON     *)
(* literal, not true/false/null in any case, and accepted by neither the   *)
(* integer parse nor the floating-point parse gives String(raw); a text    *)
(* the floating-point parse accepts gives a Number.                        *)
(***************************************************************************)
IsKeyword(raw) ==
  ToLower(raw) \in {<<"t", "r", "u", "e">>, <<"f", "a", "l", "s", "e">>, <<"n", "u", "l", "l">>}

C14_AutoDetectTotal ==
  (op = "coerce" /\ value_type = None) =>
    /\ result.kind = "ok"
    /\ ParseF64(value).ok => result.v.t \in {"int", "float"}
    /\ (/\ ~from_str(value).ok
        /\ ~IsKeyword(value)
        /\ ~ParseI64(value).ok
        /\ ~ParseF64(value).ok) => result.v = StrV(value)

(***************************************************************************)
(* C15: an invalid array index in any segment of the path, at any          *)
(* position, is reported before the document is traversed: a read or a     *)
(* write of such a path fails with invalid-array-index whatever the        *)
(* document holds, and the write leaves the document in memory as it was,  *)
(* without a created container.                                            *)
(***************************************************************************)
\* name[text] where text is not an unsigned integer
InvalidIndex(chunk) ==
  /\ Contains(chunk, "[")
  /\ chunk[Len(chunk)] = "]"
  /\ ~ParseUsize(SubSeq(chunk, Find(chunk, "[") + 2, Len(chunk) - 1)).ok

HasInvalidIndex(path) == \E i \in DOMAIN ChunksOf(path) : InvalidIndex(ChunksOf(path)[i])

C15_ParseErrorsFirst ==
  (op \in {"set", "get"} /\ Parsed /\ HasInvalidIndex(field_path)) =>
    /\ result.kind = "InvalidArrayIndex"
    /\ op = "set" => json_value = Before

(***************************************************************************)
(* C16: set_field never writes the file; set_field_and_save writes it      *)
(* only when reading, JSON parsing, path parsing, traversal and coercion   *)
(* have all succeeded: after a failing call the file holds what it held    *)
(* before the call, also when the document in memory was partly changed,   *)
(* and after a successful call it holds the serialization of the updated   *)
(* document.                                                               *)
(***************************************************************************)
SavedOrUntouched ==
  /\ op' = "set" => file' = file
  /\ op' = "save" =>
       IF result'.kind = "ok"
       THEN /\ file' = to_string_pretty(json_value')
            /\ from_str(file').ok
            /\ get_nested_value(from_str(file').v, field_path') = Ok(new_value'.v)
       ELSE file' = file

====
